---- MODULE Spec2Model ----
(***************************************************************************)
(* A model of the SDL2 sandbox driver (src/src/main.cpp).                  *)
(*                                                                         *)
(* The program is one linear main routine, three worker threads running    *)
(* thread_function, the SDL timer thread running timer_callback and the    *)
(* environment that posts events to the SDL event queue.  main is split    *)
(* into one action per demonstration step; a step is a run of statements   *)
(* between two points at which another thread or the environment can be    *)
(* observed.  The SDL library is not part of the repository: its calls are *)
(* modelled by the operators of the section "SDL library" below, after the *)
(* behaviour the specification and the SDL2 documentation give them.       *)
(***************************************************************************)
EXTENDS Integers, Sequences, FiniteSets, TLC

VARIABLES
    pcMain,       \* position of main
    sdl,          \* library state: "uninit", "init", "quit"
    lastError,    \* the last-error string of the main thread
    log,          \* main's diagnostic lines: <<source line, argument>>
    calls,        \* the SDL calls main has issued, in order
    exitCode,     \* {} while main runs, then {the value main returned}
    timerId,      \* local timerId (line 222)
    timers,       \* ids of the timers registered and not cancelled
    timerCalls,   \* number of timer_callback invocations so far
    thread,       \* locals thread1..thread3 (NULL when creation failed)
    detached,     \* workers detached by SDL_DetachThread
    pcW,          \* position of each worker
    sAtomicInt,   \* static SDL_atomic_t sAtomicInt (line 24)
    counterRead,  \* {} before line 272, then {the value main read there}
    mem,          \* stack memory: buffer[] followed by the bytes behind it
    bufSize,      \* sizeof(buffer)
    addition,     \* the bytes of the string written (line 310)
    data,         \* local data: NULL or the stream handle
    rw,           \* the memory stream's cursor: [here, stop]
    written,      \* {} before SDL_RWwrite, then {its return value}
    window,       \* local window: NULL or the handle
    win,          \* state of the window object
    ignored,      \* event types disabled with SDL_EventState
    queue,        \* the SDL event queue
    pushed,       \* number of events the environment has posted
    running,      \* local running (line 556)
    polled        \* the events SDL_PollEvent has returned, in order

vars == <<pcMain, sdl, lastError, log, calls, exitCode, timerId, timers,
          timerCalls, thread, detached, pcW, sAtomicInt, counterRead,
          mem, bufSize, addition, data, rw, written, window, win, ignored, queue,
          pushed, running, polled>>

----------------------------------------------------------------------------
(* Bounds of the model.                                                    *)

MaxEvents == 2
MaxTimerCalls == 1
MaxCap == 4
MaxLen == 5
GuardLen == 2

----------------------------------------------------------------------------
(* Values.                                                                 *)

NULL == "NULL"
NUL == "\\0"
Guard == "guard"
Workers == {1, 2, 3}
Joined == {2, 3}
EventTypes == {"SDL_QUIT", "SDL_KEYDOWN", "SDL_MOUSEBUTTONDOWN"}
CustomError == "Custom error message!"
TimerInterval == 500
NoTimer == 0

IsPrefix(s, t) == Len(s) <= Len(t) /\ SubSeq(t, 1, Len(s)) = s

RECURSIVE SeqsUpTo(_, _)
SeqsUpTo(S, n) ==
    IF n = 0 THEN {<<>>}
    ELSE LET shorter == SeqsUpTo(S, n - 1)
         IN  shorter \cup {Append(s, x) : s \in {q \in shorter : Len(q) = n - 1}, x \in S}

RECURSIVE FilterOut(_, _)
FilterOut(q, types) ==
    IF q = <<>> THEN <<>>
    ELSE IF Head(q) \in types THEN FilterOut(Tail(q), types)
         ELSE <<Head(q)>> \o FilterOut(Tail(q), types)

----------------------------------------------------------------------------
(* Groups of variables.                                                    *)

timerVars == <<timerId, timers, timerCalls>>
threadVars == <<thread, detached, pcW, sAtomicInt, counterRead>>
streamVars == <<mem, bufSize, addition, data, rw, written>>
windowVars == <<window, win>>
eventVars == <<ignored, queue, pushed, running, polled>>

----------------------------------------------------------------------------
(* SDL library.  The error string is a slot that a set overwrites and a    *)
(* clear empties; a timer id is found while its timer is registered and    *)
(* not cancelled; a memory stream is a cursor over a fixed range.          *)

SDL_SetError(err, m) == m

SDL_ClearError(err) == ""

SDL_GetError(err) == err

\* SDL_RemoveTimer: SDL_TRUE iff the id names a registered, uncancelled timer.
SDL_RemoveTimer(ts, id) == id \in ts

\* The identifier SDL_AddTimer issues: non-zero and not in use.
NewTimerId(ts) == CHOOSE id \in 1..(Cardinality(ts) + 1) : id \notin ts

\* SDL_RWFromMem's stream over size bytes at the start of the memory.
MemStream(size) == [here |-> 0, stop |-> size]

\* The write of a memory stream: at most num objects of size bytes, cut to the
\* whole objects that fit before stop.  Gives the memory, the cursor and the
\* number of objects written.
mem_write(m, s, src, size, num) ==
    LET n     == IF s.here + num * size > s.stop
                 THEN (s.stop - s.here) \div size
                 ELSE num
        bytes == n * size
    IN  [mem  |-> [i \in 1..Len(m) |->
                     IF i > s.here /\ i <= s.here + bytes
                     THEN src[i - s.here] ELSE m[i]],
         here |-> s.here + bytes,
         ret  |-> n]

\* SDL_strlen
SDL_strlen(str) == Len(str)

\* SDL_AtomicAdd and SDL_AtomicGet on the value of an SDL_atomic_t: each is one
\* indivisible step of the thread that calls it.
SDL_AtomicAdd(v, d) == v + d

SDL_AtomicGet(v) == v

----------------------------------------------------------------------------
(* The program's literals.                                                 *)

FooBuffer == <<"f", "o", "o", NUL>>
Bar == <<"b", "a", "r">>
GuardBytes == [i \in 1..GuardLen |-> Guard]
IgnoredTypes == {"SDL_MOUSEBUTTONDOWN", "SDL_MOUSEBUTTONUP"}
ThreadName(t) == CASE t = 1 -> "foo-1" [] t = 2 -> "foo-2" [] OTHER -> "foo-3"
CreatePc(t) == CASE t = 1 -> "create1" [] t = 2 -> "create2" [] OTHER -> "create3"
WaitPc(t) == IF t = 2 THEN "wait2" ELSE "wait3"
NoWindow == [state |-> "none", resizable |-> FALSE, title |-> "",
             maxSize |-> <<0, 0>>, minSize |-> <<0, 0>>, raised |-> FALSE]

\* The state with main at pc and the library in state lib, before any timer,
\* thread, stream, window or event step; the stack holds buf, to be written
\* with add, and the bytes behind it.
InitWith(pc, lib, buf, add) ==
    /\ pcMain = pc
    /\ sdl = lib
    /\ lastError = ""
    /\ log = <<>>
    /\ calls = <<>>
    /\ exitCode = {}
    /\ timerId = NoTimer
    /\ timers = {}
    /\ timerCalls = 0
    /\ thread = [t \in Workers |-> NULL]
    /\ detached = {}
    /\ pcW = [t \in Workers |-> "none"]
    /\ sAtomicInt = 0
    /\ counterRead = {}
    /\ mem = buf \o GuardBytes
    /\ bufSize = Len(buf)
    /\ addition = add
    /\ data = NULL
    /\ rw = MemStream(0)
    /\ written = {}
    /\ window = NULL
    /\ win = NoWindow
    /\ ignored = {}
    /\ queue = <<>>
    /\ pushed = 0
    /\ running = FALSE
    /\ polled = <<>>

\* The state before main's first statement: buffer[] = "foo", addition = "bar".
Init == InitWith("error_demo", "uninit", FooBuffer, Bar)

Alive == exitCode = {} /\ pcMain # "crashed"

Logged(line) == \E i \in 1..Len(log) : log[i][1] = line

----------------------------------------------------------------------------
(* main, lines 77-112: hint, error string demonstration, SDL_Init.         *)

\* An error demonstration that leaves out SDL_ClearError.
MainErrorDemo_NoClear ==
    /\ pcMain = "error_demo"
    /\ LET set == SDL_SetError(lastError, CustomError)
       IN  /\ log' = log \o << <<85, SDL_GetError(lastError)>>,
                               <<87, SDL_GetError(set)>>,
                               <<89, SDL_GetError(set)>> >>
           /\ lastError' = set
    /\ calls' = Append(calls, "SDL_SetError")
    /\ pcMain' = "init"
    /\ UNCHANGED <<sdl, exitCode, timerVars, threadVars, streamVars,
                   windowVars, eventVars>>

MainErrorDemo ==
    /\ pcMain = "error_demo"
    /\ LET set     == SDL_SetError(lastError, CustomError)
           cleared == SDL_ClearError(set)
       IN  /\ log' = log \o << <<85, SDL_GetError(lastError)>>,
                               <<87, SDL_GetError(set)>>,
                               <<89, SDL_GetError(cleared)>> >>
           /\ lastError' = cleared
    /\ calls' = calls \o <<"SDL_SetError", "SDL_ClearError">>
    /\ pcMain' = "init"
    /\ UNCHANGED <<sdl, exitCode, timerVars, threadVars, streamVars,
                   windowVars, eventVars>>

\* An SDL_Init check that logs the failure and goes on instead of returning.
MainInit_NoReturn ==
    /\ pcMain = "init"
    /\ calls' = Append(calls, "SDL_Init")
    /\ \E ok \in BOOLEAN :
         IF ok
         THEN /\ sdl' = "init"
              /\ UNCHANGED <<lastError, log>>
         ELSE /\ lastError' = "SDL_Init failed"
              /\ log' = Append(log, <<110, SDL_GetError(lastError')>>)
              /\ UNCHANGED sdl
    /\ pcMain' = "add_timer"
    /\ UNCHANGED <<exitCode, timerVars, threadVars, streamVars, windowVars,
                   eventVars>>

\* Lines 109-218.  On failure SDL_Init has set the error string; main logs it
\* and returns -1.  On success the system information, assertion and delay
\* sections (lines 120-218) follow; they keep no state.
MainInit ==
    /\ pcMain = "init"
    /\ calls' = Append(calls, "SDL_Init")
    /\ \E ok \in BOOLEAN :
         IF ok
         THEN /\ sdl' = "init"
              /\ pcMain' = "add_timer"
              /\ UNCHANGED <<lastError, log, exitCode>>
         ELSE /\ lastError' = "SDL_Init failed"
              /\ log' = Append(log, <<110, SDL_GetError(lastError')>>)
              /\ exitCode' = {-1}
              /\ pcMain' = "done"
              /\ UNCHANGED sdl
    /\ UNCHANGED <<timerVars, threadVars, streamVars, windowVars, eventVars>>

----------------------------------------------------------------------------
(* Timers, lines 38-42 and 220-230.                                        *)

\* timer_callback: the value returned is the next interval; 0 cancels.
timer_callback(interval) == interval

\* Lines 220-225.  SDL_AddTimer gives a new non-zero id, or 0 and an error.
MainAddTimer ==
    /\ pcMain = "add_timer"
    /\ calls' = Append(calls, "SDL_AddTimer")
    /\ \E ok \in BOOLEAN :
         IF ok
         THEN /\ timerId' = NewTimerId(timers)
              /\ timers' = timers \cup {timerId'}
              /\ UNCHANGED <<lastError, log>>
         ELSE /\ timerId' = NoTimer
              /\ lastError' = "SDL_AddTimer failed"
              /\ log' = Append(log, <<224, SDL_GetError(lastError')>>)
              /\ UNCHANGED timers
    /\ pcMain' = "remove_timer"
    /\ UNCHANGED <<sdl, exitCode, timerCalls, threadVars, streamVars,
                   windowVars, eventVars>>

\* The timer thread calls timer_callback for a registered timer; a return of 0
\* cancels the timer.
TimerCallback ==
    /\ Alive
    /\ sdl = "init"
    /\ timerCalls < MaxTimerCalls
    /\ \E id \in timers :
         timers' = IF timer_callback(TimerInterval) = 0
                   THEN timers \ {id} ELSE timers
    /\ timerCalls' = timerCalls + 1
    /\ UNCHANGED <<pcMain, sdl, lastError, log, calls, exitCode, timerId,
                   threadVars, streamVars, windowVars, eventVars>>

\* A removal whose result is not looked at.
MainRemoveTimer_NoReport ==
    /\ pcMain = "remove_timer"
    /\ calls' = Append(calls, "SDL_RemoveTimer")
    /\ log' = Append(log, <<230, "Removed the timer.">>)
    /\ timers' = timers \ {timerId}
    /\ pcMain' = "create1"
    /\ UNCHANGED <<sdl, lastError, exitCode, timerId, timerCalls, threadVars,
                   streamVars, windowVars, eventVars>>

\* Lines 226-230: after the delay main removes timerId, whatever its value.
MainRemoveTimer ==
    /\ pcMain = "remove_timer"
    /\ calls' = Append(calls, "SDL_RemoveTimer")
    /\ LET found == SDL_RemoveTimer(timers, timerId)
       IN  log' = (IF found THEN log ELSE Append(log, <<228, timerId>>))
                    \o << <<230, "Removed the timer.">> >>
    /\ timers' = timers \ {timerId}
    /\ pcMain' = "create1"
    /\ UNCHANGED <<sdl, lastError, exitCode, timerId, timerCalls, threadVars,
                   streamVars, windowVars, eventVars>>

----------------------------------------------------------------------------
(* Threads, lines 54-61 and 261-272.                                       *)

\* Lines 263-265: SDL_CreateThread gives a handle and starts the worker, or
\* gives NULL and sets the error string.
MainCreateThread(t) ==
    /\ pcMain = CreatePc(t)
    /\ calls' = Append(calls, "SDL_CreateThread")
    /\ \E ok \in BOOLEAN :
         IF ok
         THEN /\ thread' = [thread EXCEPT ![t] = ThreadName(t)]
              /\ pcW' = [pcW EXCEPT ![t] = "delay"]
              /\ UNCHANGED lastError
         ELSE /\ thread' = [thread EXCEPT ![t] = NULL]
              /\ lastError' = "SDL_CreateThread failed"
              /\ UNCHANGED pcW
    /\ pcMain' = IF t = 3 THEN "detach" ELSE CreatePc(t + 1)
    /\ UNCHANGED <<sdl, log, exitCode, timerVars, detached, sAtomicInt,
                   counterRead, streamVars, windowVars, eventVars>>

\* Lines 56-57: the delay ends and the worker logs its id.
WorkerDelay(t) ==
    /\ Alive
    /\ pcW[t] = "delay"
    /\ pcW' = [pcW EXCEPT ![t] = "add"]
    /\ UNCHANGED <<pcMain, sdl, lastError, log, calls, exitCode, timerVars,
                   thread, detached, sAtomicInt, counterRead,
                   streamVars, windowVars, eventVars>>

\* An increment that is a separate read and write: the write can be based on
\* a value read before another worker's increment.
WorkerAdd_Racy(t) ==
    /\ Alive
    /\ pcW[t] = "add"
    /\ \E old \in 0..sAtomicInt : sAtomicInt' = old + 1
    /\ pcW' = [pcW EXCEPT ![t] = "return"]
    /\ UNCHANGED <<pcMain, sdl, lastError, log, calls, exitCode, timerVars,
                   thread, detached, counterRead, streamVars, windowVars,
                   eventVars>>

\* Line 59: the atomic increment.
WorkerAdd(t) ==
    /\ Alive
    /\ pcW[t] = "add"
    /\ sAtomicInt' = SDL_AtomicAdd(sAtomicInt, 1)
    /\ pcW' = [pcW EXCEPT ![t] = "return"]
    /\ UNCHANGED <<pcMain, sdl, lastError, log, calls, exitCode, timerVars,
                   thread, detached, counterRead, streamVars, windowVars,
                   eventVars>>

\* Line 60: the worker returns and its thread ends.
WorkerReturn(t) ==
    /\ Alive
    /\ pcW[t] = "return"
    /\ pcW' = [pcW EXCEPT ![t] = "done"]
    /\ UNCHANGED <<pcMain, sdl, lastError, log, calls, exitCode, timerVars,
                   thread, detached, sAtomicInt, counterRead,
                   streamVars, windowVars, eventVars>>

\* A wait for thread1 in the place of its detach.
MainDetach_Join ==
    /\ pcMain = "detach"
    /\ thread[1] = NULL \/ pcW[1] = "done"
    /\ calls' = Append(calls, "SDL_DetachThread")
    /\ detached' = detached
    /\ pcMain' = "wait2"
    /\ UNCHANGED <<sdl, lastError, log, exitCode, timerVars, thread, pcW,
                   sAtomicInt, counterRead, streamVars, windowVars,
                   eventVars>>

\* Lines 267-268: SDL_DetachThread lets the worker run on; NULL is ignored.
MainDetach ==
    /\ pcMain = "detach"
    /\ calls' = Append(calls, "SDL_DetachThread")
    /\ detached' = IF thread[1] = NULL THEN detached ELSE detached \cup {1}
    /\ pcMain' = "wait2"
    /\ UNCHANGED <<sdl, lastError, log, exitCode, timerVars, thread, pcW,
                   sAtomicInt, counterRead, streamVars, windowVars,
                   eventVars>>

\* A wait that returns without waiting for the worker to end.
MainWait_NoBlock(t) ==
    /\ pcMain = WaitPc(t)
    /\ calls' = Append(calls, "SDL_WaitThread")
    /\ pcMain' = IF t = 2 THEN "wait3" ELSE "read_counter"
    /\ UNCHANGED <<sdl, lastError, log, exitCode, timerVars, threadVars,
                   streamVars, windowVars, eventVars>>

\* Lines 269-270: SDL_WaitThread returns once the worker has ended; with a
\* NULL handle it returns at once.
MainWait(t) ==
    /\ pcMain = WaitPc(t)
    /\ thread[t] = NULL \/ pcW[t] = "done"
    /\ calls' = Append(calls, "SDL_WaitThread")
    /\ pcMain' = IF t = 2 THEN "wait3" ELSE "read_counter"
    /\ UNCHANGED <<sdl, lastError, log, exitCode, timerVars, threadVars,
                   streamVars, windowVars, eventVars>>

\* Lines 271-272.
MainReadCounter ==
    /\ pcMain = "read_counter"
    /\ calls' = Append(calls, "SDL_AtomicGet")
    /\ counterRead' = {SDL_AtomicGet(sAtomicInt)}
    /\ log' = log \o << <<271, "All threads have processed their work.">>,
                        <<272, SDL_AtomicGet(sAtomicInt)>> >>
    /\ pcMain' = "rw_from_mem"
    /\ UNCHANGED <<sdl, lastError, exitCode, timerVars, thread, detached, pcW,
                   sAtomicInt, streamVars, windowVars, eventVars>>

----------------------------------------------------------------------------
(* Data I/O abstraction, lines 300-321.                                    *)

Buffer == SubSeq(mem, 1, bufSize)
Behind == SubSeq(mem, bufSize + 1, Len(mem))

\* Lines 300-308.  SDL_RWFromMem gives a stream over the buffer, or NULL and an
\* error; a size of 0 is always refused.
MainRWFromMem ==
    /\ pcMain = "rw_from_mem"
    /\ calls' = Append(calls, "SDL_RWFromMem")
    /\ \E ok \in (IF bufSize = 0 THEN {FALSE} ELSE BOOLEAN) :
         IF ok
         THEN /\ data' = "rwops"
              /\ rw' = MemStream(bufSize)
              /\ log' = Append(log, <<302, Buffer>>)
              /\ pcMain' = "rw_write"
              /\ UNCHANGED lastError
         ELSE /\ data' = NULL
              /\ lastError' = "SDL_RWFromMem failed"
              /\ log' = log \o << <<302, Buffer>>,
                                  <<307, SDL_GetError(lastError')>> >>
              /\ pcMain' = "rw_close"
              /\ UNCHANGED rw
    /\ UNCHANGED <<sdl, exitCode, timerVars, threadVars, mem, bufSize,
                   addition, written, windowVars, eventVars>>

\* A write whose result is never compared with the length asked for.
MainRWwrite_NoCheck ==
    /\ pcMain = "rw_write"
    /\ calls' = Append(calls, "SDL_RWwrite")
    /\ LET len == SDL_strlen(addition)
           w   == mem_write(mem, rw, addition, 1, len)
       IN  /\ mem' = w.mem
           /\ rw' = [rw EXCEPT !.here = w.here]
           /\ written' = {w.ret}
    /\ pcMain' = "rw_close"
    /\ UNCHANGED <<sdl, lastError, log, exitCode, timerVars, threadVars,
                   bufSize, addition, data, windowVars, eventVars>>

\* Lines 309-315, the else branch: data is not NULL.
MainRWwrite ==
    /\ pcMain = "rw_write"
    /\ calls' = Append(calls, "SDL_RWwrite")
    /\ LET len == SDL_strlen(addition)
           w   == mem_write(mem, rw, addition, 1, len)
       IN  /\ mem' = w.mem
           /\ rw' = [rw EXCEPT !.here = w.here]
           /\ written' = {w.ret}
           /\ log' = IF w.ret # len
                     THEN Append(log, <<313, SDL_GetError(lastError)>>)
                     ELSE log
    /\ pcMain' = "rw_close"
    /\ UNCHANGED <<sdl, lastError, exitCode, timerVars, threadVars, bufSize,
                   addition, data, windowVars, eventVars>>

\* What SDL_RWclose(data) can do.  It calls data->close(data): the close of a
\* memory stream frees it and returns 0; with data = NULL the call dereferences
\* a null pointer, which is undefined: the process is killed, or the call
\* returns some value.
CloseOutcomes == IF data = NULL THEN {"crash", "zero", "nonzero"} ELSE {"zero"}

\* What line 321 can do.  Its format holds %s and the call passes no argument
\* for it, which is undefined: the process is killed, or some text is logged.
LogOutcomes == {"crash", "text"}

\* Lines 317-321.
MainRWclose ==
    /\ pcMain = "rw_close"
    /\ calls' = Append(calls, "SDL_RWclose")
    /\ \E close \in CloseOutcomes, fmt \in LogOutcomes :
         IF close = "crash"
         THEN /\ pcMain' = "crashed"
              /\ UNCHANGED log
         ELSE LET closed == IF close = "nonzero"
                            THEN Append(log, <<319, SDL_GetError(lastError)>>)
                            ELSE log
              IN  IF fmt = "crash"
                  THEN /\ pcMain' = "crashed"
                       /\ log' = closed
                  ELSE /\ pcMain' = "create_window"
                       /\ log' = Append(closed, <<321, "indeterminate">>)
    /\ UNCHANGED <<sdl, lastError, exitCode, timerVars, threadVars,
                   streamVars, windowVars, eventVars>>

----------------------------------------------------------------------------
(* Video drivers, displays and the window, lines 332-499.                  *)

\* A window step whose five mutations are outside the else branch.
MainCreateWindow_MutatesNull ==
    /\ pcMain = "create_window"
    /\ \E ok \in BOOLEAN :
         IF ok
         THEN /\ window' = "window"
              /\ win' = [state |-> "live", resizable |-> TRUE,
                         maxSize |-> <<1024, 768>>, minSize |-> <<640, 480>>,
                         title |-> "foobar", raised |-> TRUE]
              /\ UNCHANGED <<lastError, log>>
         ELSE /\ window' = NULL
              /\ lastError' = "SDL_CreateWindow failed"
              /\ log' = Append(log, <<492, SDL_GetError(lastError')>>)
              /\ UNCHANGED win
    /\ calls' = calls \o <<"SDL_CreateWindow", "SDL_SetWindowResizable",
                           "SDL_SetWindowMaximumSize",
                           "SDL_SetWindowMinimumSize",
                           "SDL_SetWindowTitle", "SDL_RaiseWindow">>
    /\ pcMain' = "event_state"
    /\ UNCHANGED <<sdl, exitCode, timerVars, threadVars, streamVars, eventVars>>

\* SDL_CreateWindow gives a handle, or NULL and an error.  The five mutations
\* are in the else branch: window is not NULL.
MainCreateWindow ==
    /\ pcMain = "create_window"
    /\ \E ok \in BOOLEAN :
         IF ok
         THEN /\ window' = "window"
              /\ win' = [state |-> "live", resizable |-> TRUE,
                         maxSize |-> <<1024, 768>>, minSize |-> <<640, 480>>,
                         title |-> "foobar", raised |-> TRUE]
              /\ calls' = calls \o <<"SDL_CreateWindow", "SDL_SetWindowResizable",
                                     "SDL_SetWindowMaximumSize",
                                     "SDL_SetWindowMinimumSize",
                                     "SDL_SetWindowTitle", "SDL_RaiseWindow">>
              /\ UNCHANGED <<lastError, log>>
         ELSE /\ window' = NULL
              /\ lastError' = "SDL_CreateWindow failed"
              /\ log' = Append(log, <<492, SDL_GetError(lastError')>>)
              /\ calls' = Append(calls, "SDL_CreateWindow")
              /\ UNCHANGED win
    /\ pcMain' = "event_state"
    /\ UNCHANGED <<sdl, exitCode, timerVars, threadVars, streamVars, eventVars>>

----------------------------------------------------------------------------
(* Rectangles and events, lines 524-567.                                   *)

\* Posting an event: a disabled type is dropped, any other is queued.
EnvPostEvent(e) ==
    /\ Alive
    /\ sdl = "init"
    /\ pushed < MaxEvents
    /\ pushed' = pushed + 1
    /\ queue' = IF e \in ignored THEN queue ELSE Append(queue, e)
    /\ UNCHANGED <<pcMain, sdl, lastError, log, calls, exitCode, timerVars,
                   threadVars, streamVars, windowVars, ignored, running, polled>>

\* Lines 524-556.  SDL_EventState(type, SDL_IGNORE) disables the type and
\* drops its queued events; running starts true.
MainEventState ==
    /\ pcMain = "event_state"
    /\ calls' = Append(calls, "SDL_EventState")
    /\ ignored' = ignored \cup IgnoredTypes
    /\ queue' = FilterOut(queue, IgnoredTypes)
    /\ running' = TRUE
    /\ pcMain' = "loop_test"
    /\ UNCHANGED <<sdl, lastError, log, exitCode, timerVars, threadVars,
                   streamVars, windowVars, pushed, polled>>

\* Line 557: while (running).
MainLoopTest ==
    /\ pcMain = "loop_test"
    /\ pcMain' = IF running THEN "poll" ELSE "destroy_window"
    /\ UNCHANGED <<sdl, lastError, log, calls, exitCode, timerVars, threadVars,
                   streamVars, windowVars, eventVars>>

\* A poll whose break on SDL_QUIT leaves the drain loop as well.
MainPollEvent_BreakOnQuit ==
    /\ pcMain = "poll"
    /\ IF queue = <<>>
       THEN /\ pcMain' = "loop_test"
            /\ UNCHANGED <<queue, running, polled>>
       ELSE /\ queue' = Tail(queue)
            /\ polled' = Append(polled, Head(queue))
            /\ running' = IF Head(queue) = "SDL_QUIT" THEN FALSE ELSE running
            /\ pcMain' = IF Head(queue) = "SDL_QUIT" THEN "loop_test" ELSE "poll"
    /\ UNCHANGED <<sdl, lastError, log, calls, exitCode, timerVars, threadVars,
                   streamVars, windowVars, ignored, pushed>>

\* A poll whose switch clears running on every event type.
MainPollEvent_AnyEventStops ==
    /\ pcMain = "poll"
    /\ IF queue = <<>>
       THEN /\ pcMain' = "loop_test"
            /\ UNCHANGED <<queue, running, polled>>
       ELSE /\ queue' = Tail(queue)
            /\ polled' = Append(polled, Head(queue))
            /\ running' = FALSE
            /\ pcMain' = "poll"
    /\ UNCHANGED <<sdl, lastError, log, calls, exitCode, timerVars, threadVars,
                   streamVars, windowVars, ignored, pushed>>

\* Lines 559-565: one SDL_PollEvent.  With the queue empty it returns 0 and the
\* drain loop ends; otherwise it takes the head, and the switch clears running
\* on SDL_QUIT and leaves every other type alone.
MainPollEvent ==
    /\ pcMain = "poll"
    /\ IF queue = <<>>
       THEN /\ pcMain' = "loop_test"
            /\ UNCHANGED <<queue, running, polled>>
       ELSE /\ queue' = Tail(queue)
            /\ polled' = Append(polled, Head(queue))
            /\ running' = IF Head(queue) = "SDL_QUIT" THEN FALSE ELSE running
            /\ pcMain' = "poll"
    /\ UNCHANGED <<sdl, lastError, log, calls, exitCode, timerVars, threadVars,
                   streamVars, windowVars, ignored, pushed>>

----------------------------------------------------------------------------
(* Shutdown, lines 571-574.                                                *)

\* Line 571.  SDL_DestroyWindow refuses a NULL window with an error.
MainDestroyWindow ==
    /\ pcMain = "destroy_window"
    /\ calls' = Append(calls, "SDL_DestroyWindow")
    /\ IF window = NULL
       THEN /\ lastError' = "Invalid window"
            /\ UNCHANGED win
       ELSE /\ win' = [win EXCEPT !.state = "destroyed"]
            /\ UNCHANGED lastError
    /\ pcMain' = "quit"
    /\ UNCHANGED <<sdl, log, exitCode, timerVars, threadVars, streamVars,
                   window, eventVars>>

\* Lines 572-574: SDL_Quit and return 0.
MainQuit ==
    /\ pcMain = "quit"
    /\ calls' = Append(calls, "SDL_Quit")
    /\ sdl' = "quit"
    /\ exitCode' = {0}
    /\ pcMain' = "done"
    /\ UNCHANGED <<lastError, log, timerVars, threadVars, streamVars,
                   windowVars, eventVars>>

----------------------------------------------------------------------------
(* The program.                                                            *)

Main ==
    \/ MainErrorDemo
    \/ MainInit
    \/ MainAddTimer
    \/ MainRemoveTimer
    \/ \E t \in Workers : MainCreateThread(t)
    \/ MainDetach
    \/ \E t \in Joined : MainWait(t)
    \/ MainReadCounter
    \/ MainRWFromMem
    \/ MainRWwrite
    \/ MainRWclose
    \/ MainCreateWindow
    \/ MainEventState
    \/ MainLoopTest
    \/ MainPollEvent
    \/ MainDestroyWindow
    \/ MainQuit

Worker(t) == WorkerDelay(t) \/ WorkerAdd(t) \/ WorkerReturn(t)

Next ==
    \/ Main
    \/ \E t \in Workers : Worker(t)
    \/ TimerCallback
    \/ \E e \in EventTypes : EnvPostEvent(e)

Spec == Init /\ [][Next]_vars

\* Every thread that can take a step eventually takes one.
FairSpec == Spec /\ WF_vars(Main) /\ \A t \in Workers : WF_vars(Worker(t))

----------------------------------------------------------------------------
(* The stream steps alone, lines 300-321, over every buffer of 1..MaxCap   *)
(* bytes and every string of 0..MaxLen bytes; the program's "foo" and      *)
(* "bar" are among them.                                                   *)

PatternByte(i) == FooBuffer[((i - 1) % Len(FooBuffer)) + 1]
Buffers == {[i \in 1..c |-> PatternByte(i)] : c \in 1..MaxCap}
Additions == SeqsUpTo({"b", "a", "r"}, MaxLen)

StreamInit ==
    \E buf \in Buffers, add \in Additions :
        InitWith("rw_from_mem", "init", buf, add)

StreamNext == MainRWFromMem \/ MainRWwrite \/ MainRWclose

StreamSpec == StreamInit /\ [][StreamNext]_vars

----------------------------------------------------------------------------
(* Properties.                                                             *)

Created(t) == thread[t] # NULL
Incremented == {t \in Workers : pcW[t] \in {"return", "done"}}
QuitPolled == \E i \in 1..Len(polled) : polled[i] = "SDL_QUIT"
LeftLoop == pcMain \in {"destroy_window", "quit"} \/ exitCode = {0}
InitFailed == Logged(110)

\* C1: the value main reads at line 272, after SDL_DetachThread(thread1),
\* SDL_WaitThread(thread2) and SDL_WaitThread(thread3) have returned, counts
\* the increment of every joined worker: it is at least the number of joined
\* workers that were spawned, so at least 2 when the three workers run.
C1_ReadAfterJoin ==
    \A v \in counterRead :
        /\ v >= Cardinality({t \in Joined : Created(t)})
        /\ (\A t \in Workers : Created(t)) => v >= 2

\* C1 witness: the three workers were spawned, main has read 2 and the
\* detached worker has not incremented yet.
C1_Witness ==
    /\ \A t \in Workers : Created(t)
    /\ counterRead = {2}
    /\ 1 \notin Incremented

\* C2: main is past the event loop only if SDL_PollEvent has returned an
\* SDL_QUIT event, and inside the loop running is false only if it has:
\* events of any other type leave running true.
C2_LoopExitsOnlyOnQuit ==
    /\ LeftLoop => QuitPolled
    /\ pcMain \in {"loop_test", "poll"} => (running <=> ~QuitPolled)

\* C2 witness: main has left the loop after polling another event and then
\* the quit event.
C2_Witness ==
    /\ LeftLoop
    /\ Len(polled) = 2
    /\ polled[1] = "SDL_KEYDOWN"
    /\ polled[2] = "SDL_QUIT"


\* The calls every run of main makes after a successful SDL_Init, in order.
\* SDL_RWwrite and the five window mutations are inside the else branch of
\* their own step (lines 308-315, 493-499) and are left out.
DemoSteps ==
    <<"SDL_SetError", "SDL_ClearError", "SDL_Init", "SDL_AddTimer",
      "SDL_RemoveTimer", "SDL_CreateThread", "SDL_CreateThread",
      "SDL_CreateThread", "SDL_DetachThread", "SDL_WaitThread",
      "SDL_WaitThread", "SDL_AtomicGet", "SDL_RWFromMem", "SDL_RWclose",
      "SDL_CreateWindow", "SDL_EventState", "SDL_DestroyWindow", "SDL_Quit">>
Branch == {"SDL_RWwrite", "SDL_SetWindowResizable", "SDL_SetWindowMaximumSize",
           "SDL_SetWindowMinimumSize", "SDL_SetWindowTitle", "SDL_RaiseWindow"}
Ended == pcMain \in {"done", "crashed"}

\* C3: once the library is initialized and a quit event is in the event
\* queue, main eventually returns 0.
C3_QuitTerminates ==
    (sdl = "init" /\ \E i \in 1..Len(queue) : queue[i] = "SDL_QUIT")
        ~> (pcMain = "done" /\ exitCode = {0})

\* C4: the process ends only by main returning -1 or 0; it returns -1 exactly
\* when SDL_Init failed and 0 exactly when SDL_Init succeeded and the event
\* loop ended on a quit event.
C4_TwoExitCodes ==
    /\ Ended => exitCode \in {{-1}, {0}}
    /\ Ended /\ InitFailed <=> exitCode = {-1}
    /\ Ended /\ ~InitFailed /\ QuitPolled <=> exitCode = {0}

\* C5: when SDL_Init has failed, main has logged the error string and
\* returned -1 and nothing else has happened: no timer, no worker, the counter
\* is 0, no stream, no window, no event polled, and SDL_Init is the last call.
C5_InitFailureAborts ==
    InitFailed =>
        /\ pcMain = "done"
        /\ exitCode = {-1}
        /\ log[Len(log)] = <<110, lastError>>
        /\ calls = SubSeq(DemoSteps, 1, 3)
        /\ timerId = NoTimer /\ timers = {} /\ timerCalls = 0
        /\ \A t \in Workers : ~Created(t) /\ pcW[t] = "none"
        /\ sAtomicInt = 0 /\ counterRead = {}
        /\ data = NULL /\ written = {} /\ Buffer = FooBuffer
        /\ window = NULL /\ win = NoWindow
        /\ queue = <<>> /\ polled = <<>> /\ ~running
        /\ sdl = "uninit"

\* C5 witness: SDL_Init has failed.
C5_Witness == InitFailed /\ pcMain = "done"

\* C9: after a successful SDL_Init main never ends before the event loop, and
\* the steps it has executed are a prefix of the one fixed sequence, whatever
\* the steps returned.
C9_LogAndContinue ==
    ~InitFailed =>
        /\ IsPrefix(FilterOut(calls, Branch), DemoSteps)
        /\ pcMain = "crashed" => FALSE
        /\ Ended => QuitPolled


C6_OverflowReported ==
    /\ written = {4}
    /\ bufSize = 4
    /\ Len(addition) = 5
    /\ Logged(313)

C8_ErrorRoundTrip ==
    /\ pcMain # "error_demo" =>
         /\ SubSeq(log, 1, 3) = << <<85, "">>, <<87, CustomError>>, <<89, "">> >>
         /\ SubSeq(calls, 1, 2) = <<"SDL_SetError", "SDL_ClearError">>
    /\ pcMain = "init" => lastError = ""
    /\ \A m \in {CustomError, "", "SDL_Init failed"} :
         /\ SDL_GetError(SDL_SetError(lastError, m)) = m
         /\ SDL_GetError(SDL_ClearError(SDL_SetError(lastError, m))) = ""

\* C8 witness: main has run the demonstration and is about to call SDL_Init.
C8_Witness == pcMain = "init" /\ Logged(87) /\ Logged(89)

\* C10: the counter is the number of workers that have executed their
\* SDL_AtomicAdd, it is within 0..3, and no step decreases it.
C10_CounterCountsIncrements ==
    /\ [](sAtomicInt = Cardinality(Incremented) /\ sAtomicInt \in 0..3)
    /\ [][sAtomicInt' >= sAtomicInt]_vars

\* C10 witness: the three workers have incremented the counter.
C10_Witness == sAtomicInt = 3 /\ Incremented = Workers


\* main is in SDL_WaitThread for a joined worker that has not ended.
Blocked == \E t \in Joined : pcMain = WaitPc(t) /\ Created(t) /\ pcW[t] # "done"

\* C11: nothing orders the detached worker and main.  While the process
\* lives, thread1 can always take its next step and main can take its next
\* step unless it is joining thread2 or thread3, whatever thread1 has done;
\* with main about to read the counter and thread1 about to increment it,
\* either can go first, so the read gives 2 or 3; a read of 3 has seen
\* thread1's increment.
C11_DetachedWorkerUnordered ==
    /\ Alive /\ Created(1) /\ pcW[1] # "done" => ENABLED Worker(1)
    /\ Alive => (ENABLED Main <=> ~Blocked)
    /\ (pcMain = "read_counter" /\ pcW[1] = "add" /\ \A t \in Workers : Created(t)) =>
         /\ ENABLED (MainReadCounter /\ counterRead' = {2})
         /\ ENABLED (WorkerAdd(1) /\ sAtomicInt' = 3 /\ pcMain' = "read_counter")
    /\ \A v \in counterRead :
         (\A t \in Workers : Created(t)) =>
            /\ v \in {2, 3}
            /\ v = 3 => 1 \in Incremented

\* C11 witness: main has read 2, called SDL_Quit and returned 0 while thread1
\* has not finished.
C11_Witness ==
    /\ exitCode = {0}
    /\ sdl = "quit"
    /\ Created(1)
    /\ pcW[1] # "done"
    /\ counterRead = {2}

\* A run in which main has read 3.
C11_ReadsThree == counterRead = {3} /\ \A t \in Workers : Created(t)


Mutations == {"SDL_SetWindowResizable", "SDL_SetWindowMaximumSize",
              "SDL_SetWindowMinimumSize", "SDL_SetWindowTitle",
              "SDL_RaiseWindow"}
\* The places of call c among the calls main has made.
Pos(c) == {i \in 1..Len(calls) : calls[i] = c}

\* What the calls made so far say about the window: every mutation was made
\* on a non-null handle, after SDL_CreateWindow and before SDL_DestroyWindow;
\* SDL_DestroyWindow was called at most once, after the event loop ended on a
\* quit event, before SDL_Quit, and once main has passed line 571 exactly
\* once; SDL_Quit is the last call; the window object lives only in the
\* initialized library.
WindowOrder ==
    /\ \A i \in 1..Len(calls) :
         calls[i] \in Mutations =>
            /\ window # NULL
            /\ \E j \in Pos("SDL_CreateWindow") : j < i
            /\ \A k \in Pos("SDL_DestroyWindow") : i < k
    /\ Cardinality(Pos("SDL_CreateWindow")) <= 1
    /\ Cardinality(Pos("SDL_DestroyWindow")) =
          IF pcMain = "quit" \/ exitCode = {0} THEN 1 ELSE 0
    /\ \A k \in Pos("SDL_DestroyWindow") :
         /\ QuitPolled /\ ~running
         /\ \E j \in Pos("SDL_CreateWindow") : j < k
         /\ \A q \in Pos("SDL_Quit") : k < q
    /\ \A q \in Pos("SDL_Quit") : q = Len(calls) /\ sdl = "quit"
    /\ Pos("SDL_CreateWindow") # {} => Pos("SDL_Init") # {} /\ sdl # "uninit"
    /\ win.state = "live" =>
         /\ sdl = "init" /\ window # NULL
         /\ \A c \in Mutations : Pos(c) # {}
         /\ win.resizable /\ win.raised /\ win.title = "foobar"
    /\ win.state = "destroyed" => window # NULL /\ Pos("SDL_DestroyWindow") # {}
    /\ win.state = "none" <=> window = NULL

\* C12: the calls keep the window order in every state; the window object
\* only goes from none to live (created and mutated) and from live to
\* destroyed; and after SDL_Quit main makes no call, polls no event and the
\* window and the event queue do not change.
C12_WindowLifecycle ==
    /\ []WindowOrder
    /\ [][win'.state # win.state =>
            <<win.state, win'.state>> \in {<<"none", "live">>, <<"live", "destroyed">>}]_vars
    /\ [][sdl = "quit" => /\ calls' = calls /\ polled' = polled
                          /\ win' = win /\ window' = window
                          /\ queue' = queue]_vars

\* C12 witness: a window was created, mutated and destroyed, and main has
\* called SDL_Quit and returned.
C12_Witness ==
    /\ exitCode = {0}
    /\ win.state = "destroyed"
    /\ calls[Len(calls)] = "SDL_Quit"
    /\ calls[Len(calls) - 1] = "SDL_DestroyWindow"


\* C13: each release call was made on a handle whose creation succeeded:
\* SDL_RemoveTimer with a non-zero timerId, SDL_RWclose with a non-null data
\* and SDL_DestroyWindow with a non-null window.
C13_ReleaseOnlyCreated ==
    /\ Pos("SDL_RemoveTimer") # {} => timerId # NoTimer
    /\ Pos("SDL_RWclose") # {} => data # NULL
    /\ Pos("SDL_DestroyWindow") # {} => window # NULL


\* C14: main leaves the drain loop only by a poll that found the queue empty,
\* and then goes to the test of running; a poll made after the quit event
\* takes the head of the queue like any other, stays in the drain loop and
\* has no other effect; so main is at the test with running false, or past
\* the loop, only after the quit event and a later empty poll.
C14_QuitDoesNotStopDrain ==
    /\ [][pcMain = "poll" /\ pcMain' # "poll" =>
            /\ queue = <<>> /\ queue' = queue
            /\ polled' = polled
            /\ pcMain' = "loop_test"]_vars
    /\ [][pcMain = "poll" /\ ~running /\ polled' # polled =>
            /\ polled' = Append(polled, Head(queue))
            /\ queue' = Tail(queue)
            /\ pcMain' = "poll" /\ ~running'
            /\ UNCHANGED <<sdl, lastError, log, calls, exitCode, windowVars,
                           streamVars, threadVars, timerVars>>]_vars
    /\ []((pcMain \in {"loop_test", "poll"} \/ LeftLoop) /\ ~running => QuitPolled)
    /\ [](LeftLoop => ~running)

\* C14 witness: an event queued behind the quit event was polled before main
\* left the loop.
C14_Witness ==
    /\ LeftLoop
    /\ polled = <<"SDL_QUIT", "SDL_KEYDOWN">>

====
